---- MODULE Spec2Model ----
(***************************************************************************)
(* Model of the two-phase (flow, then block) driver of src/print/mod.rs    *)
(* and of the Printer it drives.  The driver (format_rows_buf,             *)
(* format_rows, _native_format) is translated from the source; the token   *)
(* operations of the Printer live in print/buffer.rs and are modelled from *)
(* their specification.  The second part models the Packets stream        *)
(* adapter of src/commands/restore.rs and read_packet under it.            *)
(***************************************************************************)
EXTENDS Integers, Sequences, FiniteSets, TLC

\* ---------------------------------------------------------------- bounds
MaxLen == 3
MaxLimit == 2
MaxItemWidth == 2
MaxWidth == 14
MaxPackets == 2
MaxPayload == 1
MaxLost == 1
MaxAhead == 1
MaxPending == 2
MaxAfterEnd == 1
MaxVersion == 2
MaxDelay == 2
MaxEntries == 3
MaxServiceFiles == 2

\* Config::new(): indent = 2
Indent == 2

VARIABLES
    entry,      \* the public function running: "native", "json" or "item"
    config,     \* the Config of the call (its colors setting)
    item,       \* json_item_to_string: the item is a "scalar" or an "array"
    src,        \* the item source: display width of each item it yields
    failAt,     \* the pull at which the source reports a read error (0: never)
    prn,        \* Printer (config and state)
    pc,         \* position of the driving task
    row_buf,    \* items materialized in Phase 1 (by position in the source)
    eos,        \* end_of_stream flag of _native_format
    counter,    \* counter of format_rows
    pos,        \* items yielded by the source so far
    pulls,      \* calls of rows.next() so far
    exhausted,  \* the source has reported end-of-stream
    srcFailed,  \* the source has reported a read error
    sinkFailed, \* a printer operation has reported a sink error
    out,        \* text received by the output sink
    result,     \* value returned by _native_format
    fellBack,   \* Exception::DisableFlow was raised in Phase 1
    phase2,     \* format_rows was entered
    endCalled,  \* prn.end() was called
    wire,       \* restore: bytes of the dump the input has not delivered yet
    wireErr,    \* restore: the input ends with a read error, not with EOF
    input,      \* Packets.input
    buf,        \* Packets.buf
    future,     \* Packets.future: the read in flight and what it owns
    local,      \* poll_next: its local `future` while the poll runs
    polling,    \* Packets: "idle" between polls, "running" inside poll_next
    yielded,    \* Packets: what poll_next has returned as Ready, in order
    consumed,   \* Packets: bytes the reads have taken from the input
    started,    \* Packets: futures made by next_packet
    pendings,   \* Packets: polls that returned Pending
    rpc,        \* restore_db: position ("start", "header", "packets", "failed")
    rerr,       \* restore_db: the error it failed with
    header,     \* restore_db: the header packet it read
    login,      \* cloud login: position, clock, session token, key, config file
    logout,     \* cloud logout: options, directory, flags, files deleted
    destroy     \* windows::destroy: WSL status, local files, found, result

\* the state of the Packets adapter and of its input
pkvars == <<wire, wireErr, input, buf, future, local, polling, yielded, consumed, started,
            pendings>>

\* the locals of restore_db
rsvars == <<rpc, rerr, header>>

\* the state of a render
prnvars == <<entry, config, item, src, failAt, prn, pc, row_buf, eos, counter, pos, pulls,
             exhausted, srcFailed, sinkFailed, out, result, fellBack, phase2, endCalled>>

\* the state of the cloud and instance commands
cmdvars == <<login, logout, destroy>>

vars == <<prnvars, pkvars, rsvars, cmdvars>>

\* ---------------------------------------------------------------- values
\* Option<usize>: None is <<>>, Some(n) is <<n>>
None == <<>>
Some(n) == <<n>>

RECURSIVE SeqsUpTo(_, _)
SeqsUpTo(S, n) ==
    IF n = 0 THEN {<<>>}
    ELSE LET shorter == SeqsUpTo(S, n - 1)
         IN shorter \cup {Append(s, x) : s \in {t \in shorter : Len(t) = n - 1}, x \in S}

Min(a, b) == IF a < b THEN a ELSE b

\* Option::unwrap_or
unwrap_or(opt, default) == IF opt = None THEN default ELSE opt[1]

\* ---------------------------------------------------------------- tokens
\* The buffer is a sequence of tokens; n is the item's position in the
\* source (item) or the number of spaces (indent); w is the display width;
\* s tells whether the text carries a style (in the buffer: whether it was
\* written with style escape sequences).
TokOpen == [t |-> "open", n |-> 0, w |-> 1, s |-> FALSE]
TokClose == [t |-> "close", n |-> 0, w |-> 1, s |-> FALSE]
TokJsonOpen == [t |-> "[", n |-> 0, w |-> 1, s |-> FALSE]
TokJsonCloseAsSet == [t |-> "close", n |-> 0, w |-> 1, s |-> FALSE]

TokJsonClose == [t |-> "]", n |-> 0, w |-> 1, s |-> FALSE]
TokComma == [t |-> "comma", n |-> 0, w |-> 1, s |-> FALSE]
TokSpace == [t |-> "space", n |-> 0, w |-> 1, s |-> FALSE]
TokEllipsis == [t |-> "ellipsis", n |-> 0, w |-> 3, s |-> FALSE]
TokNewline == [t |-> "nl", n |-> 0, w |-> 0, s |-> FALSE]
TokIndent(k) == [t |-> "indent", n |-> k, w |-> k, s |-> FALSE]
TokItem(i, width) == [t |-> "item", n |-> i, w |-> width, s |-> FALSE]

\* styler.apply(style, text): the text with a style
Styled(tok) == [tok EXCEPT !.s = TRUE]

\* ---------------------------------------------------------------- Printer
\* PrintError variants
StreamErr == "StreamErr"
PrintErr == "PrintErr"

PrinterCommitted(max_width, max_items, trailing_comma, colors) ==
    [ colors |-> colors,
      indent |-> Indent, max_width |-> max_width, max_items |-> max_items,
      trailing_comma |-> trailing_comma,
      buffer |-> <<>>, delim |-> "None", flow |-> FALSE,
      committed |-> 1, committed_indent |-> 0, committed_column |-> 0,
      column |-> 0, cur_indent |-> 0 ]

Printer(max_width, max_items, trailing_comma, colors) ==
    [ colors |-> colors,
      indent |-> Indent, max_width |-> max_width, max_items |-> max_items,
      trailing_comma |-> trailing_comma,
      buffer |-> <<>>, delim |-> "None", flow |-> FALSE,
      committed |-> 0, committed_indent |-> 0, committed_column |-> 0,
      column |-> 0, cur_indent |-> 0 ]

Ok(p) == [p |-> p, r |-> "Ok"]
DisableFlow(p) == [p |-> p, r |-> "DisableFlow"]

\* run Op on the printer left by res unless res already raised
\* (res is bound once, so that a chain of operations is computed once)
Then(res, Op(_)) ==
    CHOOSE next \in {IF r.r = "Ok" THEN Op(r.p) ELSE r : r \in {res}} : TRUE

write_unchecked(p, tok) ==
    LET col == IF tok.t = "nl" THEN 0 ELSE p.column + tok.w
        text == Append(p.buffer, [tok EXCEPT !.s = tok.s /\ p.colors])
    IN IF p.flow
       THEN Ok([p EXCEPT !.buffer = text, !.column = col])
       ELSE Ok([p EXCEPT !.buffer = text, !.column = col,
                         !.committed = Len(text),
                         !.committed_column = col,
                         !.committed_indent = p.cur_indent])

write_keeping(p, tok) ==
    LET col == IF tok.t = "nl" THEN 0 ELSE p.column + tok.w
        text == Append(p.buffer, [tok EXCEPT !.s = tok.s /\ p.colors])
    IN IF p.flow /\ col > p.max_width
       THEN DisableFlow(p)
       ELSE IF p.flow
       THEN Ok([p EXCEPT !.buffer = text, !.column = col])
       ELSE Ok([p EXCEPT !.buffer = text, !.column = col,
                         !.committed = Len(text),
                         !.committed_column = col,
                         !.committed_indent = p.cur_indent])

\* emission of one token: the width algorithm.  Style escape sequences
\* are written only with colors on and do not count for the width; in
\* block mode what is written is final.
write(p, tok) ==
    LET col == IF tok.t = "nl" THEN 0 ELSE p.column + tok.w
        text == Append(p.buffer, [tok EXCEPT !.s = tok.s /\ p.colors])
    IN IF p.flow /\ col > p.max_width
       THEN DisableFlow([p EXCEPT !.buffer = SubSeq(p.buffer, 1, p.committed),
                                  !.column = p.committed_column,
                                  !.cur_indent = p.committed_indent])
       ELSE IF p.flow
       THEN Ok([p EXCEPT !.buffer = text, !.column = col])
       ELSE Ok([p EXCEPT !.buffer = text, !.column = col,
                         !.committed = Len(text),
                         !.committed_column = col,
                         !.committed_indent = p.cur_indent])

write_indent(p) ==
    IF p.cur_indent = 0 THEN Ok(p) ELSE write(p, TokIndent(p.cur_indent))

\* honor a pending separator before the next token
delimit(p) ==
    IF p.delim = "None" THEN Ok(p)
    ELSE LET sep == IF p.flow
                    THEN Then(write(p, TokComma), LAMBDA q : write(q, TokSpace))
                    ELSE Then(Then(write(p, TokComma),
                                   LAMBDA q : write(q, TokNewline)),
                              write_indent)
         IN Then(sep, LAMBDA q : Ok([q EXCEPT !.delim = "None"]))

open_block(p, opener) ==
    LET d == delimit(p)
    IN IF d.r # "Ok" THEN d
       ELSE IF d.p.flow
       THEN Then(write(d.p, opener),
                 LAMBDA q : Ok([q EXCEPT !.cur_indent = q.cur_indent + q.indent]))
       ELSE LET o == write(d.p, opener).p
            IN Ok([o EXCEPT !.committed = Len(o.buffer),
                            !.committed_indent = o.cur_indent,
                            !.committed_column = o.column,
                            !.flow = TRUE,
                            !.delim = "None",
                            !.cur_indent = o.cur_indent + o.indent])

comma(p) == Ok([p EXCEPT !.delim = "Comma"])

ellipsis(p) ==
    Then(Then(delimit(p), LAMBDA q : write(q, TokEllipsis)),
         LAMBDA q : Ok([q EXCEPT !.delim = "None"]))

close_block(p, closer, allow_trailing_sep) ==
    LET sep == IF p.delim = "Comma" /\ p.trailing_comma /\ allow_trailing_sep
               THEN write(p, TokComma) ELSE Ok(p)
        dedent(q) == Ok([q EXCEPT !.delim = "None",
                                  !.cur_indent = q.cur_indent - q.indent])
        line(q) == IF q.flow THEN Ok(q)
                   ELSE Then(write(q, TokNewline), write_indent)
    IN Then(Then(Then(sep, dedent), line),
            LAMBDA q : write(q, closer))

reopen_block(p) ==
    LET q == [p EXCEPT !.buffer = SubSeq(p.buffer, 1, p.committed),
                       !.column = p.committed_column,
                       !.cur_indent = p.committed_indent + p.indent,
                       !.flow = FALSE,
                       !.delim = "None"]
    IN Then(write(q, TokNewline), write_indent)

\* end(): in flow mode everything is committed; the buffer goes to the sink
end(p) ==
    [p |-> [p EXCEPT !.buffer = <<>>, !.committed = 0,
                     !.committed_indent = p.cur_indent,
                     !.committed_column = p.column],
     r |-> "Ok", flushed |-> p.buffer]

\* Render Capability of a top-level item (a scalar of the given width)
format(p, i, width) ==
    Then(delimit(p), LAMBDA q : write(q, Styled(TokItem(i, width))))

\* ---------------------------------------------------------------- source
\* rows.next().await.transpose(): Err at the failing pull, Some(v) while
\* items are left, None afterwards
rows_next_lossy ==
    IF failAt # pulls + 1 /\ pos < Len(src) THEN [k |-> "Some", v |-> pos + 1]
    ELSE [k |-> "None", v |-> 0]

rows_next ==
    IF failAt = pulls + 1 THEN [k |-> "Err", v |-> 0]
    ELSE IF pos < Len(src) THEN [k |-> "Some", v |-> pos + 1]
    ELSE [k |-> "None", v |-> 0]

\* what the source itself does at a pull, whatever the driver makes of it
Pulled ==
    /\ pulls' = pulls + 1
    /\ srcFailed' = (srcFailed \/ failAt = pulls + 1)
    /\ pos' = IF failAt # pulls + 1 /\ pos < Len(src) THEN pos + 1 ELSE pos
    /\ exhausted' = (exhausted \/ (failAt # pulls + 1 /\ pos >= Len(src)))

\* ---------------------------------------------------------------- driver
\* if let Some(limit) = prn.max_items { if n > limit
LimitReachedEarly(n, max_items) == max_items # None /\ n >= max_items[1]

LimitReachedLate(n, max_items) == max_items # None /\ n > max_items[1] + 1

LimitReached(n, max_items) == max_items # None /\ n > max_items[1]

\* the `?` on a printer operation inside format_rows_buf, seen from the
\* match of _native_format: a sink error returns PrintErr, DisableFlow
\* reaches the fallback arm, Ok goes on at okpc
Phase1(res, sinkErr, okpc) ==
    IF sinkErr
    THEN /\ pc' = "done" /\ result' = PrintErr /\ sinkFailed' = TRUE
         /\ UNCHANGED <<prn, fellBack>>
    ELSE IF res.r = "DisableFlow"
    THEN /\ pc' = "fallback" /\ fellBack' = TRUE /\ prn' = res.p
         /\ UNCHANGED <<result, sinkFailed>>
    ELSE /\ pc' = okpc /\ prn' = res.p
         /\ UNCHANGED <<result, sinkFailed, fellBack>>

\* the same inside format_rows(..).unwrap_exc()?
Phase2(res, sinkErr, okpc) ==
    IF sinkErr
    THEN /\ pc' = "done" /\ result' = PrintErr /\ sinkFailed' = TRUE
         /\ UNCHANGED prn
    ELSE IF res.r = "DisableFlow"
    THEN /\ pc' = "done" /\ result' = "Panic" /\ prn' = res.p
         /\ UNCHANGED sinkFailed
    ELSE /\ pc' = okpc /\ prn' = res.p
         /\ UNCHANGED <<result, sinkFailed>>

\* while rows.next().await.transpose().wrap_err(StreamErr)?.is_some() {}
is_some_never(nx) == FALSE

is_some(nx) == nx.k = "Some"

StreamFailureAsPrint ==
    /\ pc' = "done" /\ result' = PrintErr
    /\ UNCHANGED <<prn, sinkFailed>>

\* a source error: `.wrap_err(StreamErr)?` and `Err(Exception::Error(e)) => return Err(e)`
StreamFailure ==
    /\ pc' = "done" /\ result' = StreamErr
    /\ UNCHANGED <<prn, sinkFailed>>

\* format_rows_buf, up to the loop
format_rows_buf_open ==
    /\ pc = "format_rows_buf"
    /\ \E sinkErr \in BOOLEAN : Phase1(open_block(prn, Styled(TokOpen)), sinkErr, "phase1")
    /\ UNCHANGED <<pkvars, rsvars, cmdvars, entry, config, item, src, failAt, row_buf, eos, counter, pos, pulls, exhausted,
                   srcFailed, out, phase2, endCalled>>

\* format_rows_buf: one turn of the loop, and the close after it
format_rows_buf_next ==
    /\ pc = "phase1"
    /\ Pulled
    /\ LET nx == rows_next
       IN CASE nx.k = "Err" ->
                 /\ StreamFailure
                 /\ UNCHANGED <<row_buf, eos, fellBack>>
            [] nx.k = "None" ->
                 /\ eos' = TRUE
                 /\ \E sinkErr \in BOOLEAN :
                        Phase1(close_block(prn, Styled(TokClose), TRUE), sinkErr, "end")
                 /\ UNCHANGED row_buf
            [] nx.k = "Some" ->
                 /\ row_buf' = Append(row_buf, nx.v)
                 /\ UNCHANGED eos
                 /\ \E sinkErr \in BOOLEAN :
                        IF LimitReached(Len(row_buf'), prn.max_items)
                        THEN Phase1(ellipsis(prn), sinkErr, "drain1")
                        ELSE Phase1(Then(format(prn, nx.v, src[nx.v]), comma),
                                    sinkErr, "phase1")
    /\ UNCHANGED <<pkvars, rsvars, cmdvars, entry, config, item, src, failAt, counter, out, phase2, endCalled>>

\* format_rows_buf: consume extra items if any, then break and close
format_rows_buf_drain_spinning ==
    /\ pc = "drain1"
    /\ UNCHANGED vars

format_rows_buf_drain ==
    /\ pc = "drain1"
    /\ Pulled
    /\ LET nx == rows_next
       IN CASE nx.k = "Err" ->
                 /\ StreamFailure
                 /\ UNCHANGED <<eos, fellBack>>
            [] nx.k # "Err" /\ is_some(nx) ->
                 UNCHANGED <<pc, prn, result, sinkFailed, eos, fellBack>>
            [] nx.k # "Err" /\ ~is_some(nx) ->
                 /\ eos' = TRUE
                 /\ \E sinkErr \in BOOLEAN :
                        Phase1(close_block(prn, Styled(TokClose), TRUE), sinkErr, "end")
    /\ UNCHANGED <<pkvars, rsvars, cmdvars, entry, config, item, src, failAt, row_buf, counter, out, phase2, endCalled>>

\* format_rows: reopen_block and the loop over buffered_rows
RECURSIVE replay(_, _, _, _)
replay(res, buffered_rows, k, widths) ==
    IF res.r # "Ok" \/ k = Len(buffered_rows)
    THEN [p |-> res.p, r |-> res.r, counter |-> k]
    ELSE IF LimitReached(k + 1, res.p.max_items)
    THEN LET e == ellipsis(res.p)
         IN [p |-> e.p, r |-> e.r, counter |-> k + 1]
    ELSE replay(Then(format(res.p, buffered_rows[k + 1],
                            widths[buffered_rows[k + 1]]), comma),
                buffered_rows, k + 1, widths)

format_rows_skip(p, buffered_rows, widths) ==
    LET o == reopen_block(p)
    IN [p |-> o.p, r |-> o.r, counter |-> Len(buffered_rows)]

format_rows_flow(p, buffered_rows, widths) ==
    replay(Ok(p), buffered_rows, 0, widths)

format_rows_divergent(p, buffered_rows, widths) ==
    replay(reopen_block(p), buffered_rows, 0,
           [j \in 1..Len(widths) |-> widths[j] + 1])

format_rows_reopening(p, buffered_rows, widths) ==
    replay(Then(reopen_block(p), LAMBDA q : write(q, Styled(TokOpen))),
           buffered_rows, 0, widths)

format_rows_replay(p, buffered_rows, widths) ==
    replay(reopen_block(p), buffered_rows, 0, widths)

\* Err(Exception::DisableFlow) => { if !eos { format_rows(..) } }
Phase2Always(end_of_stream) == TRUE

Phase2Needed(end_of_stream) == ~end_of_stream

native_format_fallback_flushing ==
    /\ pc = "fallback"
    /\ IF Phase2Needed(eos)
       THEN LET rp == format_rows_replay(prn, row_buf, src)
            IN /\ phase2' = TRUE
               /\ counter' = rp.counter
               /\ out' = out \o rp.p.buffer
               /\ \E sinkErr \in BOOLEAN :
                      Phase2([rp EXCEPT !.p.buffer = <<>>, !.p.committed = 0],
                             sinkErr, "phase2")
       ELSE /\ pc' = "end"
            /\ UNCHANGED <<prn, result, sinkFailed, phase2, counter, out>>
    /\ UNCHANGED <<pkvars, rsvars, cmdvars, entry, config, item, src, failAt, row_buf, eos, pos, pulls, exhausted,
                   srcFailed, fellBack, endCalled>>

native_format_fallback ==
    /\ pc = "fallback"
    /\ IF Phase2Needed(eos)
       THEN LET rp == format_rows_replay(prn, row_buf, src)
            IN /\ phase2' = TRUE
               /\ counter' = rp.counter
               /\ \E sinkErr \in BOOLEAN : Phase2(rp, sinkErr, "phase2")
       ELSE /\ pc' = "end"
            /\ UNCHANGED <<prn, result, sinkFailed, phase2, counter>>
    /\ UNCHANGED <<pkvars, rsvars, cmdvars, entry, config, item, src, failAt, row_buf, eos, pos, pulls, exhausted, srcFailed,
                   out, fellBack, endCalled>>

\* format_rows: one turn of the loop over the source, and the close after it
format_rows_next ==
    /\ pc = "phase2"
    /\ Pulled
    /\ LET nx == rows_next
       IN CASE nx.k = "Err" ->
                 /\ StreamFailure
                 /\ UNCHANGED counter
            [] nx.k = "None" ->
                 /\ \E sinkErr \in BOOLEAN :
                        Phase2(close_block(prn, Styled(TokClose), TRUE), sinkErr, "end")
                 /\ UNCHANGED counter
            [] nx.k = "Some" ->
                 /\ counter' = counter + 1
                 /\ \E sinkErr \in BOOLEAN :
                        IF LimitReached(counter', prn.max_items)
                        THEN Phase2(ellipsis(prn), sinkErr, "drain2")
                        ELSE Phase2(Then(format(prn, nx.v, src[nx.v]), comma),
                                    sinkErr, "phase2")
    /\ UNCHANGED <<pkvars, rsvars, cmdvars, entry, config, item, src, failAt, row_buf, eos, out, fellBack, phase2, endCalled>>

\* format_rows: consume extra items if any, then break and close
format_rows_drain ==
    /\ pc = "drain2"
    /\ Pulled
    /\ LET nx == rows_next
       IN CASE nx.k = "Err" -> StreamFailure
            [] nx.k # "Err" /\ is_some(nx) ->
                 UNCHANGED <<pc, prn, result, sinkFailed>>
            [] nx.k # "Err" /\ ~is_some(nx) ->
                 \E sinkErr \in BOOLEAN :
                     Phase2(close_block(prn, Styled(TokClose), TRUE), sinkErr, "end")
    /\ UNCHANGED <<pkvars, rsvars, cmdvars, entry, config, item, src, failAt, row_buf, eos, counter, out, fellBack, phase2,
                   endCalled>>

\* prn.end().unwrap_exc().context(PrintErr)?; Ok(())
native_format_end ==
    /\ pc = "end"
    /\ endCalled' = TRUE
    /\ pc' = "done"
    /\ \E sinkErr \in BOOLEAN :
          IF sinkErr
          THEN /\ result' = PrintErr /\ sinkFailed' = TRUE
               /\ UNCHANGED <<prn, out>>
          ELSE LET e == end(prn)
               IN /\ prn' = e.p
                  /\ out' = out \o e.flushed
                  /\ result' = "Ok"
                  /\ UNCHANGED sinkFailed
    /\ UNCHANGED <<pkvars, rsvars, cmdvars, entry, config, item, src, failAt, row_buf, eos, counter, pos, pulls, exhausted,
                   srcFailed, fellBack, phase2>>

\* the task driving _native_format is dropped while it is suspended on
\* rows.next().await
task_abandoned ==
    /\ pc \in {"phase1", "drain1", "phase2", "drain2"}
    /\ pc' = "abandoned"
    /\ UNCHANGED <<pkvars, rsvars, cmdvars, entry, config, item, src, failAt, prn, row_buf, eos, counter, pos,
                   pulls, exhausted, srcFailed, sinkFailed, out, result,
                   fellBack, phase2, endCalled>>

\* ---------------------------------------------------------------- JSON
\* format_rows_str: the loop over the item slice
RECURSIVE format_items_sep_first(_, _, _)
format_items_sep_first(res, items, k) ==
    IF res.r # "Ok" \/ k = Len(items) THEN res
    ELSE format_items_sep_first(
             Then(Then(res, comma),
                  LAMBDA q : format(q, k + 1, items[k + 1])), items, k + 1)

RECURSIVE format_items(_, _, _)
format_items(res, items, k) ==
    IF res.r # "Ok" \/ k = Len(items) THEN res
    ELSE format_items(Then(format(res.p, k + 1, items[k + 1]), comma), items, k + 1)

format_rows_str_open(p, items, open, close, reopen) ==
    Then(format_items(open_block(p, open), items, 0),
         LAMBDA q : close_block(q, close, TRUE))

format_rows_str(p, items, open, close, reopen) ==
    Then(format_items(IF reopen THEN reopen_block(p) ELSE open_block(p, open),
                      items, 0),
         LAMBDA q : close_block(q, close, TRUE))

\* json_to_string: match format_rows_str(&mut prn, items, "[", "]", false)
json_to_string_flow ==
    /\ pc = "json_to_string"
    /\ LET res == format_rows_str(prn, src, TokJsonOpen, TokJsonClose, FALSE)
       IN /\ prn' = res.p
          /\ pc' = IF res.r = "DisableFlow" THEN "json_fallback" ELSE "json_end"
          /\ fellBack' = (res.r = "DisableFlow")
    /\ UNCHANGED <<pkvars, rsvars, cmdvars, entry, config, item, src, failAt, row_buf, eos, counter, pos, pulls,
                   exhausted, srcFailed, sinkFailed, out, result, phase2,
                   endCalled>>

\* Err(Exception::DisableFlow) => format_rows_str(.., true).unwrap_exc()?
json_to_string_block ==
    /\ pc = "json_fallback"
    /\ phase2' = TRUE
    /\ LET res == format_rows_str(prn, src, TokJsonOpen, TokJsonClose, TRUE)
       IN /\ prn' = res.p
          /\ IF res.r = "DisableFlow"
             THEN pc' = "done" /\ result' = "Panic"
             ELSE pc' = "json_end" /\ UNCHANGED result
    /\ UNCHANGED <<pkvars, rsvars, cmdvars, entry, config, item, src, failAt, row_buf, eos, counter, pos, pulls,
                   exhausted, srcFailed, sinkFailed, out, fellBack, endCalled>>

\* prn.end().unwrap_exc()?; Ok(out)
json_to_string_end ==
    /\ pc = "json_end"
    /\ endCalled' = TRUE
    /\ pc' = "done"
    /\ LET e == end(prn)
       IN /\ prn' = e.p
          /\ out' = out \o e.flushed
          /\ result' = "Ok"
    /\ UNCHANGED <<pkvars, rsvars, cmdvars, entry, config, item, src, failAt, row_buf, eos, counter, pos, pulls,
                   exhausted, srcFailed, sinkFailed, fellBack, phase2>>

\* ------------------------------------------------- json_item_to_string
\* Render Capability of a composite item (an array of scalars): the block
\* it opens is its own flow attempt, and a fallback raised inside it is
\* taken by the item itself, which re-renders its block in block mode; a
\* block opened inside an enclosing flow attempt hands the fallback on
format_array(p, items) ==
    LET attempt == format_rows_str(p, items, TokJsonOpen, TokJsonClose, FALSE)
    IN IF attempt.r = "DisableFlow" /\ ~p.flow
       THEN format_rows_str(attempt.p, items, TokJsonOpen, TokJsonClose, TRUE)
       ELSE attempt

\* item.format(&mut prn)
item_format(p) ==
    IF item = "scalar" THEN format(p, 1, src[1]) ELSE format_array(p, src)

\* json_item_to_string: match item.format(&mut prn);
\* Err(Exception::DisableFlow) => unreachable!()
json_item_to_string_format ==
    /\ pc = "json_item_to_string"
    /\ LET res == item_format(prn)
       IN /\ prn' = res.p
          /\ IF res.r = "DisableFlow"
             THEN pc' = "done" /\ result' = "Panic"
             ELSE pc' = "item_end" /\ UNCHANGED result
          /\ fellBack' = (item = "array" /\
                          format_rows_str(prn, src, TokJsonOpen, TokJsonClose,
                                          FALSE).r = "DisableFlow")
    /\ UNCHANGED <<pkvars, rsvars, cmdvars, entry, config, item, src, failAt, row_buf, eos, counter, pos,
                   pulls, exhausted, srcFailed, sinkFailed, out, phase2,
                   endCalled>>

\* prn.end().unwrap_exc()?; Ok(out)
json_item_to_string_end ==
    /\ pc = "item_end"
    /\ endCalled' = TRUE
    /\ pc' = "done"
    /\ LET e == end(prn)
       IN /\ prn' = e.p
          /\ out' = out \o e.flushed
          /\ result' = "Ok"
    /\ UNCHANGED <<pkvars, rsvars, cmdvars, entry, config, item, src, failAt, row_buf, eos, counter, pos,
                   pulls, exhausted, srcFailed, sinkFailed, fellBack, phase2>>

\* ---------------------------------------------------------------- spec
\* native_to_stdout: config.colors.unwrap_or_else(|| io::stdout().is_terminal())
NativeColors(config_colors, is_terminal) == unwrap_or(config_colors, is_terminal)

\* json_to_string: colors: config.colors.unwrap_or(false)
JsonColorsOn(config_colors) == unwrap_or(config_colors, TRUE)

JsonColors(config_colors) == unwrap_or(config_colors, FALSE)

\* _native_format: trailing_comma: true
NativeTrailingCommaOff == FALSE

NativeTrailingComma == TRUE

\* json_to_string: trailing_comma: false
JsonTrailingComma == FALSE

\* json_item_to_string: the Printer it builds (trailing_comma: false,
\* flow: false)
ItemPrinterFlow(max_width, max_items, colors) ==
    [Printer(max_width, max_items, FALSE, colors) EXCEPT !.flow = TRUE]

ItemPrinter(max_width, max_items, colors) ==
    Printer(max_width, max_items, FALSE, colors)

\* the Packets adapter before restore_db has built it
NoPackets ==
    /\ wire = <<>> /\ wireErr = FALSE
    /\ input = None /\ buf = None /\ future = None /\ local = None
    /\ polling = "idle" /\ yielded = <<>> /\ consumed = <<>>
    /\ started = 0 /\ pendings = 0
    /\ rpc = "none" /\ rerr = "" /\ header = None

\* no cloud or instance command runs
NoCommands ==
    /\ login = [pc |-> "none"]
    /\ logout = [pc |-> "none"]
    /\ destroy = [pc |-> "none"]

Init ==
    /\ entry \in {"native", "json", "item"}
    /\ config \in [colors : {None, Some(TRUE), Some(FALSE)}]
    /\ item \in IF entry = "item" THEN {"scalar", "array"} ELSE {"none"}
    /\ src \in {s \in SeqsUpTo(1..MaxItemWidth, MaxLen) : item = "scalar" => Len(s) = 1}
    /\ failAt \in IF entry = "native" THEN 0..(MaxLen + 1) ELSE {0}
    /\ \E max_width \in 1..MaxWidth :
       \E max_items \in {None} \cup {Some(n) : n \in 0..MaxLimit} :
       \E is_terminal \in BOOLEAN :
           prn = IF entry = "native"
                 THEN Printer(max_width, max_items, NativeTrailingComma,
                              NativeColors(config.colors, is_terminal))
                 ELSE IF entry = "json"
                 THEN Printer(max_width, max_items, JsonTrailingComma,
                              JsonColors(config.colors))
                 ELSE ItemPrinter(max_width, max_items, JsonColors(config.colors))
    /\ pc = IF entry = "native" THEN "format_rows_buf"
            ELSE IF entry = "json" THEN "json_to_string"
            ELSE "json_item_to_string"
    /\ row_buf = <<>>
    /\ eos = FALSE
    /\ counter = 0
    /\ pos = 0
    /\ pulls = 0
    /\ exhausted = FALSE
    /\ srcFailed = FALSE
    /\ sinkFailed = FALSE
    /\ out = <<>>
    /\ result = "Running"
    /\ fellBack = FALSE
    /\ phase2 = FALSE
    /\ endCalled = FALSE
    /\ NoPackets
    /\ NoCommands

Next ==
    \/ format_rows_buf_open
    \/ format_rows_buf_next
    \/ format_rows_buf_drain
    \/ native_format_fallback
    \/ format_rows_next
    \/ format_rows_drain
    \/ native_format_end
    \/ task_abandoned
    \/ json_to_string_flow
    \/ json_to_string_block
    \/ json_to_string_end
    \/ json_item_to_string_format
    \/ json_item_to_string_end

Spec == Init /\ [][Next]_vars

\* the native render of a task that is polled until it returns: the
\* caller awaits _native_format and every pull of the source answers;
\* returns; styling does not take part in the control flow and is off
NativeInit == Init /\ entry = "native" /\ config.colors = Some(FALSE)

NativeRun ==
    \/ format_rows_buf_open
    \/ format_rows_buf_next
    \/ format_rows_buf_drain
    \/ native_format_fallback
    \/ format_rows_next
    \/ format_rows_drain
    \/ native_format_end

LiveSpec == NativeInit /\ [][NativeRun]_vars /\ WF_vars(NativeRun)

\* ---------------------------------------------------------------- restore
\* const HEADER_LEN: usize = 1 + 20 + 4
HEADER_LEN == 1 + 20 + 4

\* b'H' and b'D'
TYPE_HEADER == 72
TYPE_BLOCK == 68

\* a type byte that is neither
TYPE_OTHER == 88

\* u32::from_be_bytes(buf[1 + 20..][..4])
from_be_bytes(b) ==
    ((b[1 + 20 + 1] * 256 + b[1 + 20 + 2]) * 256 + b[1 + 20 + 3]) * 256 + b[1 + 20 + 4]

to_be_bytes(n) ==
    <<(n \div (256 * 256 * 256)) % 256, (n \div (256 * 256)) % 256,
      (n \div 256) % 256, n % 256>>

\* a packet on the wire: type byte, 20 bytes of hash, length, payload (the
\* payload bytes of the i-th packet are i)
Encode(typ, len, i) ==
    <<typ>> \o [j \in 1..20 |-> 0] \o to_be_bytes(len) \o [j \in 1..len |-> i]

RECURSIVE EncodeAll(_, _)
EncodeAll(pkts, i) ==
    IF i > Len(pkts) THEN <<>>
    ELSE Encode(pkts[i].typ, pkts[i].len, i) \o EncodeAll(pkts, i + 1)

\* read_packet(&mut input, &mut buf, expected) as far as it gets
\* on the bytes of buf alone: "Read" when it is at a read_buf().await of
\* the header loop ("header") or of the payload loop ("payload"), "Done"
\* with its result and what it leaves in buf otherwise
read_packet_as(b, expected) ==
    IF Len(b) < HEADER_LEN THEN [k |-> "Read", loop |-> "header"]
    ELSE IF b[1] \notin {TYPE_HEADER, TYPE_BLOCK}
    THEN [k |-> "Done", res |-> [k |-> "Err", v |-> <<>>, e |-> "Invalid block type"],
          buf |-> b]
    ELSE IF b[1] # expected
    THEN [k |-> "Done", res |-> [k |-> "Err", v |-> <<>>, e |-> "Expected block"],
          buf |-> b]
    ELSE LET len == from_be_bytes(b)
         IN IF Len(b) < HEADER_LEN + len THEN [k |-> "Read", loop |-> "payload"]
            ELSE [k |-> "Done",
                  res |-> [k |-> "Some",
                           v |-> SubSeq(b, HEADER_LEN + 1, HEADER_LEN + len),
                           e |-> ""],
                  buf |-> SubSeq(b, HEADER_LEN + len + 1, Len(b))]

\* next_packet: read_packet(&mut input, &mut buf, PacketType::Block)
read_packet_dropping(b) ==
    IF Len(b) < HEADER_LEN THEN [k |-> "Read", loop |-> "header"]
    ELSE IF b[1] \notin {TYPE_HEADER, TYPE_BLOCK}
    THEN [k |-> "Done", res |-> [k |-> "Err", v |-> <<>>, e |-> "Invalid block type"],
          buf |-> b]
    ELSE IF b[1] # TYPE_BLOCK
    THEN [k |-> "Done", res |-> [k |-> "Err", v |-> <<>>, e |-> "Expected block"],
          buf |-> b]
    ELSE LET len == from_be_bytes(b)
         IN IF Len(b) < HEADER_LEN + len THEN [k |-> "Read", loop |-> "payload"]
            ELSE [k |-> "Done",
                  res |-> [k |-> "Some",
                           v |-> SubSeq(b, HEADER_LEN + 1, HEADER_LEN + len),
                           e |-> ""],
                  buf |-> <<>>]

read_packet_any(b) == read_packet_as(b, IF b = <<>> THEN TYPE_BLOCK ELSE b[1])

read_packet(b) == read_packet_as(b, TYPE_BLOCK)

\* read_buf() returned 0 or an error: what read_packet returns then
read_packet_eof_lenient(b, loop, failed) ==
    IF failed THEN [k |-> "Err", v |-> <<>>, e |-> "io"]
    ELSE [k |-> "None", v |-> <<>>, e |-> ""]

read_packet_eof(b, loop, failed) ==
    IF failed THEN [k |-> "Err", v |-> <<>>, e |-> "io"]
    ELSE IF loop = "header" /\ b = <<>> THEN [k |-> "None", v |-> <<>>, e |-> ""]
    ELSE [k |-> "Err", v |-> <<>>, e |-> "UnexpectedEof"]

\* sizes of one read_buf(): a byte, a header's worth, all there is
ReadSizes == {n \in {1, HEADER_LEN, Len(wire)} : 1 <= n /\ n <= Len(wire)}

\* polls the model still makes once the stream has yielded None or an error
Ended == Len(SelectSeq(yielded, LAMBDA y : y.k # "Some"))

\* poll_next: self.future.take().unwrap_or_else(|| self.next_packet().boxed())
poll_next ==
    /\ polling = "idle"
    /\ Ended <= MaxAfterEnd
    /\ IF future # None
       THEN /\ local' = future /\ future' = None /\ polling' = "running"
            /\ UNCHANGED <<input, buf, started>>
       ELSE IF input = None \/ buf = None
       THEN /\ polling' = "panicked"
            /\ UNCHANGED <<input, buf, future, local, started>>
       ELSE /\ local' = Some([input |-> input[1], buf |-> buf[1]])
            /\ input' = None /\ buf' = None /\ started' = started + 1
            /\ polling' = "running"
            /\ UNCHANGED future
    /\ UNCHANGED <<prnvars, cmdvars, rsvars, wire, wireErr, yielded, consumed, pendings>>

\* future.as_mut().poll(cx): read_buf() has bytes
read_buf_ready ==
    /\ polling = "running"
    /\ read_packet(local[1].buf).k = "Read"
    /\ \E n \in ReadSizes :
          /\ local' = Some([local[1] EXCEPT !.buf = @ \o SubSeq(wire, 1, n)])
          /\ consumed' = consumed \o SubSeq(wire, 1, n)
          /\ wire' = SubSeq(wire, n + 1, Len(wire))
    /\ UNCHANGED <<prnvars, cmdvars, rsvars, wireErr, input, buf, future, polling, yielded, started, pendings>>

\* Poll::Pending => { self.future = Some(future); Poll::Pending }
on_pending_restart(fut) == Some([fut EXCEPT !.buf = <<>>])

on_pending(fut) == Some(fut)

poll_pending ==
    /\ polling = "running"
    /\ read_packet(local[1].buf).k = "Read"
    /\ pendings < MaxPending
    /\ future' = on_pending(local[1])
    /\ local' = None /\ polling' = "idle"
    /\ pendings' = pendings + 1
    /\ UNCHANGED <<prnvars, cmdvars, rsvars, wire, wireErr, input, buf, yielded, consumed, started>>

\* Poll::Ready((input, buf, res)) => { self.future = None;
\* self.input = Some(input); self.buf = Some(buf); Poll::Ready(res) }
on_ready_buf_lost(b) == None

on_ready_buf(b) == Some(b)

poll_ready ==
    /\ polling = "running"
    /\ LET st == read_packet(local[1].buf)
           done == IF st.k = "Done" THEN st
                   ELSE [k |-> "Done",
                         res |-> read_packet_eof(local[1].buf, st.loop, wireErr),
                         buf |-> local[1].buf]
       IN /\ st.k = "Read" => wire = <<>>
          /\ future' = None
          /\ input' = Some(local[1].input)
          /\ buf' = on_ready_buf(done.buf)
          /\ yielded' = Append(yielded, done.res)
    /\ local' = None /\ polling' = "idle"
    /\ UNCHANGED <<prnvars, cmdvars, rsvars, wire, wireErr, consumed, started, pendings>>

\* no render runs during a restore
NoPrinter ==
    /\ entry = "restore" /\ config = [colors |-> None] /\ item = "none"
    /\ src = <<>> /\ failAt = 0
    /\ prn = Printer(1, None, FALSE, FALSE)
    /\ pc = "restore" /\ row_buf = <<>> /\ eos = FALSE /\ counter = 0
    /\ pos = 0 /\ pulls = 0 /\ exhausted = FALSE /\ srcFailed = FALSE
    /\ sinkFailed = FALSE /\ out = <<>> /\ result = "Running"
    /\ fellBack = FALSE /\ phase2 = FALSE /\ endCalled = FALSE

\* restore_db: Packets { input: Some(input), buf: Some(buf), future: None };
\* buf is what the read of the dump header left in it
PacketsInit ==
    /\ NoPrinter
    /\ NoCommands
    /\ wireErr \in BOOLEAN
    /\ \E pkts \in SeqsUpTo([typ : {TYPE_BLOCK, TYPE_HEADER, TYPE_OTHER},
                               len : 0..MaxPayload], MaxPackets) :
       \E lost \in 0..MaxLost :
       \E ahead \in 0..MaxAhead :
           LET dump == EncodeAll(pkts, 1)
               stream == SubSeq(dump, 1, Len(dump) - Min(lost, Len(dump)))
               got == Min(ahead, Len(stream))
           IN /\ buf = Some(SubSeq(stream, 1, got))
              /\ consumed = SubSeq(stream, 1, got)
              /\ wire = SubSeq(stream, got + 1, Len(stream))
    /\ input = Some("file")
    /\ future = None /\ local = None
    /\ polling = "idle" /\ yielded = <<>>
    /\ started = 0 /\ pendings = 0
    /\ rpc = "packets" /\ rerr = "" /\ header = None

PacketsNext ==
    \/ poll_next
    \/ read_buf_ready
    \/ poll_pending
    \/ poll_ready

PacketsSpec == PacketsInit /\ [][PacketsNext]_vars

\* --------------------------------------------------------- restore_db
\* const MAX_SUPPORTED_DUMP_VER: i64 = 1
MAX_SUPPORTED_DUMP_VER == 1

\* b"\xFF\xD8\x00\x00\xD8EDGEDB\x00DUMP\x00"
Magic == <<255, 216, 0, 0, 216, 69, 68, 71, 69, 68, 66, 0, 68, 85, 77, 80, 0>>

RECURSIVE unsigned_be(_)
unsigned_be(b) ==
    IF b = <<>> THEN 0 ELSE unsigned_be(SubSeq(b, 1, Len(b) - 1)) * 256 + b[Len(b)]

\* i64::from_be_bytes: two's complement, the sign is the top bit
i64_from_be_bytes(b) ==
    IF b[1] < 128 THEN unsigned_be(b)
    ELSE -(unsigned_be([j \in 1..Len(b) |-> 255 - b[j]]) + 1)

i64_to_be_bytes(v) ==
    IF v >= 0 THEN <<0, 0, 0, 0>> \o to_be_bytes(v)
    ELSE <<255, 255, 255, 255>> \o [j \in 1..4 |-> 255 - to_be_bytes(-v - 1)[j]]

\* if version == 0 || version > MAX_SUPPORTED_DUMP_VER
Unsupported(version) == version = 0 \/ version > MAX_SUPPORTED_DUMP_VER

restore_fail(msg) ==
    /\ rpc' = "failed" /\ rerr' = msg
    /\ UNCHANGED <<input, buf, header, polling>>

\* restore_db up to the dump header: the database must be empty, then
\* read_exact of 17 + 8 bytes, the magic and the version
restore_db_open ==
    /\ rpc = "start"
    /\ \E non_empty \in BOOLEAN :
          IF non_empty
          THEN /\ restore_fail("cannot restore: the database is not empty")
               /\ UNCHANGED <<wire, consumed>>
          ELSE IF Len(wire) < 17 + 8
          THEN /\ restore_fail("Cannot read header")
               /\ consumed' = consumed \o wire /\ wire' = <<>>
          ELSE /\ consumed' = consumed \o SubSeq(wire, 1, 17 + 8)
               /\ wire' = SubSeq(wire, 17 + 8 + 1, Len(wire))
               /\ IF SubSeq(wire, 1, 17) # Magic
                  THEN restore_fail("Incorrect header")
                  ELSE IF Unsupported(i64_from_be_bytes(SubSeq(wire, 17 + 1, 17 + 8)))
                  THEN restore_fail("Unsupported dump version")
                  ELSE /\ rpc' = "header"
                       /\ input' = Some("file") /\ buf' = Some(<<>>)
                       /\ UNCHANGED <<rerr, header, polling>>
    /\ UNCHANGED <<prnvars, cmdvars, wireErr, future, local, yielded, started, pendings>>

\* read_packet(&mut input, &mut buf, Header): read_buf() has bytes
restore_db_read ==
    /\ rpc = "header"
    /\ read_packet_as(buf[1], TYPE_HEADER).k = "Read"
    /\ \E n \in ReadSizes :
          /\ buf' = Some(buf[1] \o SubSeq(wire, 1, n))
          /\ consumed' = consumed \o SubSeq(wire, 1, n)
          /\ wire' = SubSeq(wire, n + 1, Len(wire))
    /\ UNCHANGED <<prnvars, cmdvars, rsvars, wireErr, input, future, local, polling, yielded,
                   started, pendings>>

\* read_packet(.., Header).await.with_context(file_ctx)?
\*     .ok_or_else(|| anyhow!("Dump is empty"))?;
\* Packets { input: Some(input), buf: Some(buf), future: None }
restore_db_header ==
    /\ rpc = "header"
    /\ LET st == read_packet_as(buf[1], TYPE_HEADER)
           done == IF st.k = "Done" THEN st
                   ELSE [k |-> "Done",
                         res |-> read_packet_eof(buf[1], st.loop, wireErr),
                         buf |-> buf[1]]
       IN /\ st.k = "Read" => wire = <<>>
          /\ IF done.res.k = "Some"
             THEN /\ header' = Some(done.res.v)
                  /\ buf' = Some(done.buf)
                  /\ rpc' = "packets" /\ polling' = "idle"
                  /\ UNCHANGED <<rerr, input>>
             ELSE restore_fail(IF done.res.k = "None" THEN "Dump is empty"
                               ELSE done.res.e)
    /\ UNCHANGED <<prnvars, cmdvars, wire, wireErr, future, local, yielded, consumed, started,
                   pendings>>

\* restore_db is called on a dump: the magic (or not), a version and packets
RestoreInit ==
    /\ NoPrinter
    /\ NoCommands
    /\ wireErr \in BOOLEAN
    /\ \E pkts \in SeqsUpTo([typ : {TYPE_BLOCK, TYPE_HEADER, TYPE_OTHER},
                               len : 0..MaxPayload], MaxPackets) :
       \E lost \in 0..MaxLost :
       \E version \in (-MaxVersion)..MaxVersion :
       \E magic \in {Magic, [Magic EXCEPT ![1] = 0]} :
           LET dump == magic \o i64_to_be_bytes(version) \o EncodeAll(pkts, 1)
           IN wire = SubSeq(dump, 1, Len(dump) - lost)
    /\ consumed = <<>>
    /\ input = None /\ buf = None
    /\ future = None /\ local = None
    /\ polling = "unbuilt" /\ yielded = <<>>
    /\ started = 0 /\ pendings = 0
    /\ rpc = "start" /\ rerr = "" /\ header = None

RestoreNext ==
    \/ restore_db_open
    \/ restore_db_read
    \/ restore_db_header
    \/ poll_next
    \/ read_buf_ready
    \/ poll_pending
    \/ poll_ready

RestoreSpec == RestoreInit /\ [][RestoreNext]_vars

\* ---------------------------------------------------------- cloud login
\* const AUTHENTICATION_WAIT_TIME: Duration = Duration::from_secs(10 * 60)
AUTHENTICATION_WAIT_TIME == 10 * 60

\* const AUTHENTICATION_POLL_INTERVAL: Duration = Duration::from_secs(1)
AUTHENTICATION_POLL_INTERVAL == 1

\* while Instant::now() < deadline
InTimeInclusive(now, deadline) == now <= deadline

InTime(now, deadline) == now < deadline

\* CloudConfig { secret_key: key.secret_key }
ConfigKeyOfSession(session_token, key) == session_token

ConfigKey(session_token, key) == key

login_return(res, cause) ==
    login' = [login EXCEPT !.pc = "done", !.result = res, !.cause = cause]

\* let user_resp = client.get("user").await; match user_resp
login_user ==
    /\ login.pc = "user"
    /\ \E resp \in {"Ok", "Unauthorized", "Err"} :
          CASE resp = "Ok" -> login_return("Ok", "already")
            [] resp = "Unauthorized" -> login' = [login EXCEPT !.pc = "session"]
            [] resp = "Err" -> login_return("Err", "user")
    /\ UNCHANGED <<prnvars, pkvars, rsvars, logout, destroy>>

\* client.post("auth/sessions/", ..).await?; open_link;
\* let deadline = Instant::now() + AUTHENTICATION_WAIT_TIME
login_session ==
    /\ login.pc = "session"
    /\ \E ok \in BOOLEAN :
          IF ok
          THEN login' = [login EXCEPT !.pc = "loop",
                                      !.deadline = login.now + AUTHENTICATION_WAIT_TIME]
          ELSE login_return("Err", "session")
    /\ UNCHANGED <<prnvars, pkvars, rsvars, logout, destroy>>

\* one turn of the polling loop: the test of the deadline, the request
\* (it takes d seconds), the match on its response and the sleep; after
\* the loop, bail!("Authentication expected to complete in ..")
login_poll ==
    /\ login.pc = "loop"
    /\ IF ~InTime(login.now, login.deadline)
       THEN login_return("Err", "timeout")
       ELSE \E d \in 0..MaxDelay : \E resp \in {"token", "none", "err"} :
              IF resp = "token"
              THEN login' = [login EXCEPT !.pc = "secretkeys",
                                          !.polled_at = Some(login.now),
                                          !.last_end = login.poll_end,
                                          !.poll_end = Some(login.now + d),
                                          !.now = login.now + d,
                                          !.token = "session_token"]
              ELSE login' = [login EXCEPT !.polled_at = Some(login.now),
                                          !.last_end = login.poll_end,
                                          !.poll_end = Some(login.now + d),
                                          !.now = login.now + d + AUTHENTICATION_POLL_INTERVAL,
                                          !.poll_failed = @ \/ resp = "err",
                                          !.poll_empty = @ \/ resp = "none"]
    /\ UNCHANGED <<prnvars, pkvars, rsvars, logout, destroy>>

\* client.set_secret_key(Some(&secret_key))?; client.post("secretkeys/", ..).await?
login_secretkeys ==
    /\ login.pc = "secretkeys"
    /\ \E outcome \in {"Ok", "set_secret_key", "secretkeys"} :
          IF outcome = "Ok"
          THEN login' = [login EXCEPT !.pc = "write", !.key = "secret_key"]
          ELSE login_return("Err", outcome)
    /\ UNCHANGED <<prnvars, pkvars, rsvars, logout, destroy>>

\* write_json(&cloud_config_file(..)?, "cloud config", &CloudConfig {..})?;
\* client.set_secret_key(None)?
login_write_config ==
    /\ login.pc = "write"
    /\ \E outcome \in {"Ok", "write_json", "unset_secret_key"} :
          LET written == Append(login.config, ConfigKey(login.token, login.key))
          IN CASE outcome = "Ok" ->
                    login' = [login EXCEPT !.pc = "whoami", !.config = written]
               [] outcome = "write_json" -> login_return("Err", "write_json")
               [] outcome = "unset_secret_key" ->
                    login' = [login EXCEPT !.pc = "done", !.result = "Err",
                                           !.cause = "unset_secret_key",
                                           !.config = written]
    /\ UNCHANGED <<prnvars, pkvars, rsvars, logout, destroy>>

\* let user: User = client.get("user").await?; return Ok(())
login_whoami ==
    /\ login.pc = "whoami"
    /\ \E ok \in BOOLEAN :
          IF ok THEN login_return("Ok", "logged in") ELSE login_return("Err", "whoami")
    /\ UNCHANGED <<prnvars, pkvars, rsvars, logout, destroy>>

LoginInit ==
    /\ NoPrinter /\ NoPackets
    /\ login = [pc |-> "user", now |-> 0, deadline |-> 0,
                polled_at |-> None, last_end |-> None, poll_end |-> None,
                poll_failed |-> FALSE, poll_empty |-> FALSE,
                token |-> "", key |-> "", config |-> <<>>,
                result |-> "Running", cause |-> ""]
    /\ logout = [pc |-> "none"]
    /\ destroy = [pc |-> "none"]

LoginNext ==
    \/ login_user
    \/ login_session
    \/ login_poll
    \/ login_secretkeys
    \/ login_write_config
    \/ login_whoami

LoginSpec == LoginInit /\ [][LoginNext]_vars

\* --------------------------------------------------------- cloud logout
\* the files the credentials directory can hold: a name is a stem and an
\* extension; two files can share a stem
Files ==
    {[stem |-> "a", ext |-> "json"], [stem |-> "a", ext |-> "bak"],
     [stem |-> "b", ext |-> "json"], [stem |-> ".DS_Store", ext |-> ""]}

Profiles == {"a", "b"}

\* the sequences of distinct files of length at most n
RECURSIVE Listings(_)
Listings(n) ==
    IF n = 0 THEN {<<>>}
    ELSE LET shorter == Listings(n - 1)
             longest == {d \in shorter : Len(d) = n - 1}
         IN shorter \cup
            UNION {{Append(d, f) : f \in Files \ {d[i] : i \in 1..Len(d)}} :
                   d \in longest}

\* stem.map(|n| n.starts_with('.'))
starts_with_dot(n) == n = ".DS_Store"

\* the tail of logout: the warnings, then the three-way result
logout_result_swapped(warnings, force, skipped, removed) ==
    IF warnings # <<>> /\ ~force THEN "NEEDS_FORCE"
    ELSE IF ~skipped THEN "Ok"
    ELSE IF removed THEN "NEEDS_FORCE"
    ELSE "PARTIAL_SUCCESS"

logout_result(warnings, force, skipped, removed) ==
    IF warnings # <<>> /\ ~force THEN "NEEDS_FORCE"
    ELSE IF ~skipped THEN "Ok"
    ELSE IF removed THEN "PARTIAL_SUCCESS"
    ELSE "NEEDS_FORCE"

\* a `?` that returns another error
logout_fail(l) == [l EXCEPT !.pc = "done", !.result = "Err"]

\* if c.all_profiles { read_dir ..; let mut projects = find_project_dirs(|_| true)
\*     .or_else(|e| if c.force { Ok(HashMap::new()) } else { Err(e) })?
logout_start ==
    /\ logout.pc = "start"
    /\ logout.all_profiles
    /\ \E rd \in {"Ok", "NotFound", "Err"} :
          CASE rd = "NotFound" ->
                 /\ logout.dir = <<>>
                 /\ logout' = [logout EXCEPT !.pc = "done", !.result = "Ok"]
            [] rd = "Err" -> logout' = logout_fail(logout)
            [] rd = "Ok" ->
                 IF logout.lookup_fails
                 THEN IF logout.force
                      THEN logout' = [logout EXCEPT !.pc = "loop", !.projects = {}]
                      ELSE logout' = logout_fail(logout)
                 ELSE logout' = [logout EXCEPT !.pc = "loop", !.projects = logout.used]
    /\ UNCHANGED <<prnvars, pkvars, rsvars, login, destroy>>

\* the body of `for item in dir_entries` for the entry l.dir[l.i]
logout_visit(l, item_ok, ans, rm_ok) ==
    LET file == l.dir[l.i]
        next == [l EXCEPT !.i = l.i + 1]
        used_here == file.stem \in l.projects
        taken == [next EXCEPT !.projects = l.projects \ {file.stem}]
        warned == [taken EXCEPT !.warnings = Append(@, file.stem)]
        skip(r) == [r EXCEPT !.skipped = TRUE,
                             !.skipped_files = @ \cup {file}]
        remove(r) ==
            IF rm_ok
            THEN [r EXCEPT !.removed = TRUE, !.deleted = @ \cup {file}]
            ELSE logout_fail([r EXCEPT !.removed = TRUE])
    IN CASE ~item_ok -> logout_fail(l)
         [] item_ok /\ starts_with_dot(file.stem) -> next
         [] item_ok /\ ~starts_with_dot(file.stem) /\ ~used_here -> remove(next)
         [] item_ok /\ ~starts_with_dot(file.stem) /\ used_here ->
              IF l.non_interactive
              THEN IF ~l.force THEN skip(warned) ELSE remove(warned)
              ELSE CASE ans = "err" -> logout_fail(taken)
                     [] ans = "no" -> skip(taken)
                     [] ans = "yes" ->
                          remove([taken EXCEPT !.confirmed = @ \cup {file}])

\* for item in dir_entries { .. }
logout_entry ==
    /\ logout.pc = "loop"
    /\ IF logout.i > Len(logout.dir)
       THEN logout' = [logout EXCEPT !.pc = "finish"]
       ELSE \E item_ok \in BOOLEAN : \E ans \in {"yes", "no", "err"} :
            \E rm_ok \in BOOLEAN :
              logout' = logout_visit(logout, item_ok, ans, rm_ok)
    /\ UNCHANGED <<prnvars, pkvars, rsvars, login, destroy>>

\* the else branch: the one profile of the client
logout_single ==
    /\ logout.pc = "start"
    /\ ~logout.all_profiles
    /\ \E client_ok \in BOOLEAN : \E ans \in {"yes", "no", "err"} :
       \E rm_ok \in BOOLEAN :
         LET file == [stem |-> logout.profile, ext |-> "json"]
             exists == \E i \in 1..Len(logout.dir) : logout.dir[i] = file
             projects == IF logout.lookup_fails THEN {}
                         ELSE {p \in logout.used : logout.profile = p}
             asked == projects # {} /\ ~logout.non_interactive
             removed == IF projects = {} THEN TRUE
                        ELSE IF logout.non_interactive THEN logout.force
                        ELSE ans = "yes"
             l == [logout EXCEPT
                     !.projects = projects,
                     !.warnings = IF projects # {} /\ logout.non_interactive
                                  THEN Append(@, logout.profile) ELSE @,
                     !.confirmed = IF asked /\ ans = "yes"
                                   THEN @ \cup {file} ELSE @]
         IN CASE ~client_ok -> logout' = logout_fail(logout)
              [] client_ok /\ ~exists -> logout' = [logout EXCEPT !.pc = "finish"]
              [] client_ok /\ exists ->
                   IF logout.lookup_fails /\ ~logout.force
                   THEN logout' = logout_fail(logout)
                   ELSE IF asked /\ ans = "err"
                   THEN logout' = logout_fail([l EXCEPT !.removed = TRUE,
                                                        !.confirmed = logout.confirmed])
                   ELSE IF removed /\ ~rm_ok
                   THEN logout' = logout_fail([l EXCEPT !.removed = TRUE])
                   ELSE logout' =
                          [l EXCEPT !.pc = "finish",
                                    !.removed = removed,
                                    !.skipped = ~removed,
                                    !.deleted = IF removed THEN @ \cup {file} ELSE @,
                                    !.skipped_files = IF removed THEN @
                                                      ELSE @ \cup {file}]
    /\ UNCHANGED <<prnvars, pkvars, rsvars, login, destroy>>

\* if !warnings.is_empty() { .. } if !skipped { Ok(()) } else if removed ..
logout_finish ==
    /\ logout.pc = "finish"
    /\ logout' = [logout EXCEPT
                    !.pc = "done",
                    !.result = logout_result(logout.warnings, logout.force,
                                             logout.skipped, logout.removed)]
    /\ UNCHANGED <<prnvars, pkvars, rsvars, login, destroy>>

LogoutInit ==
    /\ NoPrinter /\ NoPackets
    /\ login = [pc |-> "none"]
    /\ destroy = [pc |-> "none"]
    /\ \E all_profiles \in BOOLEAN, force \in BOOLEAN, non_interactive \in BOOLEAN :
       \E dir \in Listings(MaxEntries) : \E used \in SUBSET Profiles :
       \E lookup_fails \in BOOLEAN :
         logout = [pc |-> "start", all_profiles |-> all_profiles, force |-> force,
                   non_interactive |-> non_interactive, profile |-> "a",
                   dir |-> dir, used |-> used, lookup_fails |-> lookup_fails,
                   projects |-> {}, i |-> 1, warnings |-> <<>>,
                   skipped |-> FALSE, removed |-> FALSE,
                   deleted |-> {}, skipped_files |-> {}, confirmed |-> {},
                   result |-> "Running"]

LogoutNext ==
    \/ logout_start
    \/ logout_entry
    \/ logout_single
    \/ logout_finish

LogoutSpec == LogoutInit /\ [][LogoutNext]_vars

\* ------------------------------------------------------ windows::destroy
\* the exit codes the WSL command can end with; status.code() is None
\* when a signal ended it
ExitCodes == {"0", "INSTANCE_NOT_FOUND", "1", "2"}

\* the lists of at most n service files, each existing or not
RECURSIVE ServiceFiles(_)
ServiceFiles(n) ==
    IF n = 0 THEN {<<>>}
    ELSE LET shorter == ServiceFiles(n - 1)
         IN shorter \cup {Append(f, e) : f \in {x \in shorter : Len(x) = n - 1},
                                         e \in BOOLEAN}

ExitCode(c) == [k |-> "ExitCode", code |-> c]

Outcome(k) == [k |-> k, code |-> ""]

\* match status.code() { .. }
wsl_status_strict(code) ==
    CASE code = None -> [found |-> FALSE, ret |-> Some(Outcome("Interrupted"))]
      [] code = Some("0") -> [found |-> TRUE, ret |-> None]
      [] OTHER -> [found |-> FALSE, ret |-> Some(ExitCode(code[1]))]

wsl_status(code) ==
    CASE code = None -> [found |-> FALSE, ret |-> Some(Outcome("Interrupted"))]
      [] code = Some("INSTANCE_NOT_FOUND") -> [found |-> FALSE, ret |-> None]
      [] code = Some("0") -> [found |-> TRUE, ret |-> None]
      [] OTHER -> [found |-> FALSE, ret |-> Some(ExitCode(code[1]))]

destroy_return(res) == destroy' = [destroy EXCEPT !.pc = "done", !.result = res]

\* let mut found = false; if let Some(wsl) = get_wsl()? { .. status()?; match .. }
\* let paths = Paths::get(name)?
destroy_wsl ==
    /\ destroy.pc = "wsl"
    /\ \E spawned \in BOOLEAN : \E paths_ok \in BOOLEAN :
         LET st == wsl_status(destroy.status)
         IN CASE destroy.wsl = "error" -> destroy_return(Outcome("io"))
              [] destroy.wsl = "present" /\ ~spawned -> destroy_return(Outcome("io"))
              [] destroy.wsl = "present" /\ spawned /\ st.ret # None ->
                   destroy_return(st.ret[1])
              [] OTHER ->
                   IF paths_ok
                   THEN destroy' = [destroy EXCEPT
                                      !.pc = "credentials",
                                      !.found = destroy.wsl = "present" /\ st.found]
                   ELSE destroy_return(Outcome("io"))
    /\ UNCHANGED <<prnvars, pkvars, rsvars, login, logout>>

\* if paths.credentials.exists() { found = true; fs::remove_file(..)?; }
destroy_credentials ==
    /\ destroy.pc = "credentials"
    /\ \E rm_ok \in BOOLEAN :
         IF ~destroy.credentials
         THEN destroy' = [destroy EXCEPT !.pc = "service_files"]
         ELSE IF rm_ok
         THEN destroy' = [destroy EXCEPT !.pc = "service_files", !.found = TRUE,
                                         !.credentials = FALSE,
                                         !.removed = @ \cup {0}]
         ELSE destroy' = [destroy EXCEPT !.pc = "done", !.found = TRUE,
                                         !.result = Outcome("io")]
    /\ UNCHANGED <<prnvars, pkvars, rsvars, login, logout>>

\* for path in &paths.service_files { if path.exists() { .. } };
\* if !found { return Err(ExitCode::new(INSTANCE_NOT_FOUND)) } Ok(())
destroy_service_files ==
    /\ destroy.pc = "service_files"
    /\ \E rm_ok \in BOOLEAN :
         LET i == destroy.i
         IN IF i > Len(destroy.service_files)
            THEN destroy_return(IF ~destroy.found THEN ExitCode("INSTANCE_NOT_FOUND")
                                ELSE Outcome("Ok"))
            ELSE IF ~destroy.service_files[i]
            THEN destroy' = [destroy EXCEPT !.i = i + 1]
            ELSE IF rm_ok
            THEN destroy' = [destroy EXCEPT !.i = i + 1, !.found = TRUE,
                                            !.service_files[i] = FALSE,
                                            !.removed = @ \cup {i}]
            ELSE destroy' = [destroy EXCEPT !.pc = "done", !.found = TRUE,
                                            !.result = Outcome("io")]
    /\ UNCHANGED <<prnvars, pkvars, rsvars, login, logout>>

DestroyInit ==
    /\ NoPrinter /\ NoPackets
    /\ login = [pc |-> "none"]
    /\ logout = [pc |-> "none"]
    /\ \E wsl \in {"absent", "error", "present"} :
       \E status \in {None} \cup {Some(c) : c \in ExitCodes} :
       \E credentials \in BOOLEAN : \E files \in ServiceFiles(MaxServiceFiles) :
         /\ wsl # "present" => status = None
         /\ destroy = [pc |-> "wsl", wsl |-> wsl, status |-> status,
                       credentials |-> credentials, service_files |-> files,
                       had_credentials |-> credentials, had_service_files |-> files,
                       found |-> FALSE, i |-> 1, removed |-> {},
                       result |-> Outcome("Running")]

DestroyNext ==
    \/ destroy_wsl
    \/ destroy_credentials
    \/ destroy_service_files

DestroySpec == DestroyInit /\ [][DestroyNext]_vars

\* ---------------------------------------------------------------- claims
\* _native_format has returned Ok(())
Returned == entry = "native" /\ pc = "done" /\ result = "Ok"

\* the item limit N is set and the source yields M > N items
Limited == prn.max_items # None /\ Len(src) > prn.max_items[1]

\* number of items the render is to show
Shown == IF Limited THEN prn.max_items[1] ELSE Len(src)

ItemsOf(text) ==
    LET its == SelectSeq(text, LAMBDA tok : tok.t = "item")
    IN [j \in 1..Len(its) |-> its[j].n]

CountOf(text, kind) == Len(SelectSeq(text, LAMBDA tok : tok.t = kind))

RECURSIVE WidthOf(_)
WidthOf(text) == IF text = <<>> THEN 0 ELSE Head(text).w + WidthOf(Tail(text))

FirstN(n) == [j \in 1..n |-> j]

\* the text without its style escape sequences
Plain(text) == [j \in 1..Len(text) |-> [text[j] EXCEPT !.s = FALSE]]

\* items 1..n of the source on one line, separated by ", "
RECURSIVE FlowItems(_)
FlowItems(n) ==
    IF n = 0 THEN <<>>
    ELSE IF n = 1 THEN <<TokItem(1, src[1])>>
    ELSE FlowItems(n - 1) \o <<TokComma, TokSpace, TokItem(n, src[n])>>

\* the one-line rendering: opening bracket, items, separators, closing bracket
OneLine ==
    <<TokOpen>> \o FlowItems(Shown)
      \o (IF Limited
          THEN (IF Shown > 0 THEN <<TokComma, TokSpace>> ELSE <<>>) \o <<TokEllipsis>>
          ELSE IF Shown > 0 THEN <<TokComma>> ELSE <<>>)
      \o <<TokClose>>

FitsOneLine == WidthOf(OneLine) <= prn.max_width

\* C1: a sequence whose one-line rendering is at most max_width wide is
\* rendered, on success, as exactly that line: Phase 1 completes without a
\* fallback, Phase 2 never runs and the output has no line break.
C1_OneLineWhenFits ==
    (Returned /\ FitsOneLine) =>
        /\ Plain(out) = OneLine
        /\ ~fellBack /\ ~phase2
        /\ CountOf(out, "nl") = 0

C1_Witness ==
    /\ Returned /\ FitsOneLine /\ Len(src) >= 2 /\ Limited
    /\ Plain(out) = OneLine /\ WidthOf(out) = prn.max_width

\* the multi-line layout: brackets on their own boundary lines, every item
\* first on its line after (nesting depth x indent) spaces
MultiLine(text) ==
    /\ Len(text) >= 3
    /\ text[1] = TokOpen /\ text[2] = TokNewline
    /\ text[Len(text)] = TokClose /\ text[Len(text) - 1] = TokNewline
    /\ \A j \in 1..Len(text) :
          text[j].t = "item" =>
              /\ j > 2 /\ text[j - 1] = TokIndent(Indent) /\ text[j - 2] = TokNewline
              /\ \A k \in (j + 1)..Len(text) :
                    (\A m \in (j + 1)..k : text[m].t # "nl") => text[k].t = "comma"

\* C2: a sequence whose one-line rendering exceeds max_width is rendered, on
\* success, over several lines: one item per line, indented by one level,
\* with the brackets on their own lines.
C2_MultiLineWhenTooWide ==
    (Returned /\ ~FitsOneLine) => MultiLine(Plain(out))

\* C3: with max_items = N and M > N items, a successful render shows exactly
\* the first N items, in order.
C3_FirstNItems ==
    (Returned /\ Limited) => ItemsOf(out) = FirstN(prn.max_items[1])

\* C4: with max_items = N and M > N items, a successful render shows the
\* ellipsis exactly once, wherever Phase 1 fell back to Phase 2 (also when
\* the ellipsis itself raised the fallback and the source has items left).
C4_OneEllipsis ==
    (Returned /\ Limited /\ phase2) => CountOf(out, "ellipsis") = 1

\* C5: with max_items = N and M > N items, a successful render returns
\* only after all M items and the end-of-stream have been pulled.
C5_Drained ==
    (Returned /\ Limited) => (pos = Len(src) /\ exhausted)

C5_Witness ==
    /\ Returned /\ Limited /\ phase2
    /\ Len(row_buf) = prn.max_items[1] + 1
    /\ Len(src) > Len(row_buf) + 1
    /\ pos = Len(src) /\ exhausted

\* the items of row_buf that are within the item limit
Replayed ==
    IF prn.max_items = None THEN row_buf
    ELSE SubSeq(row_buf, 1, Min(Len(row_buf), prn.max_items[1]))

StartsWith(s, prefix) ==
    Len(s) >= Len(prefix) /\ SubSeq(s, 1, Len(prefix)) = prefix

\* C6: items are rendered in the order they were pulled: the items of the
\* buffer and of the sink are always the first k items of the source, and
\* once Phase 2 has replayed row_buf they start with the replayed prefix.
C6_PullOrder ==
    /\ ItemsOf(prn.buffer) = FirstN(Len(ItemsOf(prn.buffer)))
    /\ ItemsOf(out) = FirstN(Len(ItemsOf(out)))
    /\ (phase2 /\ pc \in {"phase2", "drain2", "end"})
          => StartsWith(ItemsOf(prn.buffer), Replayed)
    /\ (phase2 /\ Returned) => StartsWith(ItemsOf(out), Replayed)

C6_Witness ==
    /\ Returned /\ phase2 /\ Len(row_buf) >= 2
    /\ StartsWith(ItemsOf(out), row_buf)
    /\ Len(ItemsOf(out)) > Len(row_buf)

\* C7: whenever the fallback signal is raised in Phase 1, the items already
\* pulled go through Phase 2 and every one within the item limit is in the
\* final output.
C7_FallbackReplaysPulled ==
    (Returned /\ fellBack /\ Replayed # <<>>) =>
        (phase2 /\ StartsWith(ItemsOf(out), Replayed))

\* C8: the fallback signal never escapes the driver: neither Phase 2 nor
\* end() hands DisableFlow to unwrap_exc.
C8_NoEscape == result # "Panic"

C8_Witness ==
    /\ entry = "json" /\ pc = "done" /\ result = "Ok"
    /\ phase2 /\ prn.max_width < Indent
    /\ Len(ItemsOf(out)) >= 2

\* C9: a read error of the source ends the render at once with that error:
\* no later pull, no end(), nothing in the sink.
C9_SourceErrorAborts ==
    srcFailed =>
        /\ pc = "done" /\ result = "StreamErr"
        /\ pulls = failAt
        /\ ~endCalled
        /\ out = <<>>

C9_Witness ==
    /\ srcFailed /\ phase2 /\ result = "StreamErr"
    /\ CountOf(prn.buffer, "ellipsis") = 1 /\ Len(ItemsOf(prn.buffer)) >= 1
    /\ pulls = failAt /\ out = <<>>

\* C10: an error is returned as StreamErr exactly when the source failed
\* and as PrintErr exactly when a printer operation failed.
C10_ErrorKinds ==
    /\ (result = "StreamErr") <=> srcFailed
    /\ (result = "PrintErr") <=> sinkFailed
    /\ ~(srcFailed /\ sinkFailed)

C10_Witness ==
    /\ result = "PrintErr" /\ sinkFailed /\ endCalled /\ phase2 /\ pulls >= 2

\* C11: while the task is suspended on a pull, and so when it is abandoned
\* there, nothing has been flushed to the sink.
C11_NothingFlushedAtPull ==
    pc \in {"phase1", "drain1", "phase2", "drain2", "abandoned"} => out = <<>>

C11_Witness ==
    /\ pc = "abandoned" /\ phase2 /\ out = <<>>
    /\ Len(ItemsOf(prn.buffer)) >= 2 /\ pos < Len(src)

\* C12: only finalized text reaches the sink: when end() flushes, the
\* buffer holds nothing beyond the commit point unless it is the flow
\* rendering that was completed without a fallback, and after a fallback
\* no text written in flow mode (its ", " separators) is in the sink.
C12_OnlyCommittedText ==
    /\ pc \in {"end", "json_end"} =>
          (prn.committed = Len(prn.buffer) \/ (prn.flow /\ ~fellBack))
    /\ fellBack => CountOf(out, "space") = 0

C12_Witness ==
    /\ entry = "native" /\ pc = "done" /\ result = "Ok"
    /\ fellBack /\ eos /\ ~phase2 /\ Len(row_buf) >= 2
    /\ Plain(out) = <<TokOpen>>

ItemTokens(text) == SelectSeq(text, LAMBDA tok : tok.t = "item")

\* item i of the source rendered on its own by a fresh block-mode printer
IsolatedRender(i) ==
    format(Printer(prn.max_width, prn.max_items, prn.trailing_comma, prn.colors),
           i, src[i]).p.buffer

ReplayedAsIsolated(text) ==
    /\ Len(ItemTokens(text)) >= Len(Replayed)
    /\ \A j \in 1..Len(Replayed) :
          <<ItemTokens(text)[j]>> = IsolatedRender(row_buf[j])

JsonReturned == entry = "json" /\ pc = "done" /\ result = "Ok"

\* `{}` for the native render, `[]` for json_to_string
BarePair ==
    IF entry = "native"
    THEN <<[t |-> "open", n |-> 0, w |-> 1, s |-> FALSE],
           [t |-> "close", n |-> 0, w |-> 1, s |-> FALSE]>>
    ELSE <<[t |-> "[", n |-> 0, w |-> 1, s |-> FALSE],
           [t |-> "]", n |-> 0, w |-> 1, s |-> FALSE]>>

\* C15 as stated: an empty sequence renders as the bare bracket pair, with
\* no separator, no ellipsis and no fallback, for every max_items.
C15_EmptyIsBarePair ==
    ((Returned \/ JsonReturned) /\ src = <<>>) =>
        (Plain(out) = BarePair /\ ~fellBack)

\* C15 amended: the same, provided max_width is at least the width of the
\* bracket pair.
C15_EmptyIsBarePairWhenItFits ==
    ((Returned \/ JsonReturned) /\ src = <<>> /\ prn.max_width >= WidthOf(BarePair)) =>
        (Plain(out) = BarePair /\ ~fellBack /\ ~phase2)

C15_Witness ==
    /\ JsonReturned /\ src = <<>> /\ prn.max_items = Some(0)
    /\ prn.max_width = WidthOf(BarePair)
    /\ out = BarePair /\ ~fellBack

Blank(tok) == tok.t \in {"nl", "indent", "space"}

\* no separator directly after an opening bracket
NoSepAfterOpen(text) ==
    \A j \in 1..Len(text) : \A k \in (j + 1)..Len(text) :
        (text[j].t \in {"open", "["} /\ text[k].t = "comma") =>
            \E m \in (j + 1)..(k - 1) : ~Blank(text[m]) /\ text[m].t # "comma"

\* no separator directly before a closing bracket
NoSepBeforeClose(text) ==
    \A j \in 1..Len(text) : \A k \in (j + 1)..Len(text) :
        (text[j].t = "comma" /\ text[k].t \in {"close", "]"}) =>
            \E m \in (j + 1)..(k - 1) : ~Blank(text[m])

C18_PullsOnce ==
    /\ pos <= Len(src)
    /\ pulls <= pos + 1
    /\ exhausted => (pos = Len(src) /\ pulls = Len(src) + 1)

C18_Witness ==
    /\ Returned /\ phase2 /\ Len(row_buf) >= 2 /\ Len(src) > Len(row_buf)
    /\ exhausted /\ pulls = Len(src) + 1

\* C19: json_to_string honors the item limit like the streaming path: with
\* max_items = N and more than N items it renders the first N items and
\* one ellipsis.
C19_JsonHonorsLimit ==
    (JsonReturned /\ Limited) =>
        /\ ItemsOf(out) = FirstN(prn.max_items[1])
        /\ CountOf(out, "ellipsis") = 1

NoEscapes(text) == \A j \in 1..Len(text) : ~text[j].s

CompleteJson(text) ==
    /\ Len(text) >= 2
    /\ text[1] = TokJsonOpen /\ text[Len(text)] = TokJsonClose
    /\ ItemsOf(text) = FirstN(Len(src))

\* C20 as stated: for every Config, colors forced on included, the JSON
\* string is complete, has no style escape sequences and is rendered with
\* trailing_comma = false.
C20_JsonPlain ==
    JsonReturned =>
        /\ CompleteJson(out) /\ NoEscapes(out)
        /\ ~prn.trailing_comma /\ NoSepBeforeClose(out)

\* C20 amended: no style escape sequences unless the Config forces colors
\* on; complete and with trailing_comma = false for every Config.
C20_JsonPlainUnlessForced ==
    JsonReturned =>
        /\ CompleteJson(out)
        /\ config.colors # Some(TRUE) => NoEscapes(out)
        /\ ~prn.trailing_comma /\ NoSepBeforeClose(out)

C20_Witness ==
    /\ JsonReturned /\ config.colors = None /\ phase2
    /\ Len(src) >= 2 /\ CompleteJson(out) /\ NoEscapes(out)

ItemReturned == entry = "item" /\ pc = "done" /\ result = "Ok"

C22_CommittedWithinBuffer == prn.committed <= Len(prn.buffer)

C22_Witness ==
    /\ pc = "phase2" /\ fellBack /\ ~prn.flow
    /\ prn.committed = Len(prn.buffer)
    /\ Len(ItemsOf(prn.buffer)) >= 2

\* C23: I2: in flow mode the text beyond the commit point never reaches
\* past max_width; when the fallback signal has been raised the buffer is
\* cut back to the commit point and column and indent are the committed
\* ones.
C23_FlowWithinWidth ==
    /\ (prn.flow /\ Len(prn.buffer) > prn.committed) => prn.column <= prn.max_width
    /\ pc \in {"fallback", "json_fallback"} =>
          /\ Len(prn.buffer) = prn.committed
          /\ prn.column = prn.committed_column
          /\ prn.cur_indent = prn.committed_indent

C23_Witness ==
    /\ pc = "fallback" /\ Len(row_buf) >= 2 /\ ~eos
    /\ Len(prn.buffer) = prn.committed
    /\ prn.column = prn.committed_column /\ prn.column <= prn.max_width

\* C24: on every successful native or JSON render the closing token is in
\* the output exactly once, as its last token, and cur_indent is back at
\* its initial value when end() is called.
C24_ClosedOnce ==
    /\ (Returned \/ JsonReturned) =>
          /\ CountOf(out, "close") + CountOf(out, "]") = 1
          /\ out # <<>> /\ out[Len(out)].t \in {"close", "]"}
    /\ pc \in {"end", "json_end"} => prn.cur_indent = 0

\* C25: after a fallback the final output has the outer opening token
\* exactly once, as its first token, every item at most once and none of
\* the flow-mode text (no ", ").
C25_ReopenedOnce ==
    ((Returned \/ JsonReturned) /\ fellBack) =>
        /\ CountOf(out, "open") + CountOf(out, "[") = 1
        /\ out # <<>> /\ out[1].t \in {"open", "["}
        /\ ItemsOf(out) = FirstN(Len(ItemsOf(out)))
        /\ CountOf(out, "space") = 0

C25_Witness ==
    /\ Returned /\ fellBack /\ phase2 /\ Len(row_buf) >= 2
    /\ CountOf(out, "open") = 1 /\ out[1].t = "open"
    /\ ItemsOf(out) = FirstN(Len(src))

\* C26: once Phase 2 has reopened the block the printer stays in block
\* mode and no operation of Phase 2 raises the fallback signal, however
\* far column is beyond max_width.
C26_BlockModeNeverRaises ==
    phase2 =>
        /\ pc \in {"phase2", "drain2", "end", "json_end"} => ~prn.flow
        /\ ~(pc = "done" /\ result = "Panic")

C26_Witness ==
    /\ phase2 /\ pc \in {"end", "json_end"} /\ ~prn.flow
    /\ \E j \in 1..Len(prn.buffer) :
          /\ prn.buffer[j].t = "item"
          /\ Indent + prn.buffer[j].w > prn.max_width

\* C27: when the source yields M <= max_items items, or max_items is
\* unset, a successful render has no ellipsis and shows all M items.
C27_NoEllipsisWithinLimit ==
    (Returned /\ ~Limited) =>
        /\ CountOf(out, "ellipsis") = 0
        /\ ItemsOf(out) = FirstN(Len(src))

\* leading items of the source whose flow rendering fits within max_width
FitCount ==
    Cardinality({k \in 1..Len(src) :
                    WidthOf(<<TokOpen>> \o FlowItems(k)) <= prn.max_width})

C28_Bounded ==
    /\ Len(row_buf) <= FitCount + 1
    /\ prn.max_items # None => Len(row_buf) <= prn.max_items[1] + 1

C28_NotRetained ==
    pc \in {"drain1", "fallback", "phase2", "drain2", "end"} => row_buf' = row_buf

\* C28: row_buf never holds more than the leading items that fit on the
\* line plus one, nor more than max_items + 1; a step of a drain loop or of
\* Phase 2 leaves row_buf as it is.
C28_BoundedBuffering == []C28_Bounded /\ [][C28_NotRetained]_vars

C28_Witness ==
    /\ entry = "native" /\ pc \in {"phase2", "drain2"} /\ pos > Len(row_buf)
    /\ Len(row_buf) = FitCount + 1 /\ Len(row_buf) >= 2

\* the dump as the input delivers it, read or not
Stream == consumed \o wire

\* the payloads of the Block packets of a byte stream, up to the first
\* byte that does not begin a complete Block packet
RECURSIVE PacketsOf(_)
PacketsOf(bytes) ==
    IF Len(bytes) < 25 \/ bytes[1] # 68 THEN <<>>
    ELSE LET len == bytes[25] + 256 * (bytes[24] + 256 * (bytes[23] + 256 * bytes[22]))
         IN IF Len(bytes) < 25 + len THEN <<>>
            ELSE <<[j \in 1..len |-> bytes[25 + j]]>>
                   \o PacketsOf([j \in 1..(Len(bytes) - 25 - len) |-> bytes[25 + len + j]])

\* the packets poll_next has yielded
Payloads ==
    LET some == SelectSeq(yielded, LAMBDA y : y.k = "Some")
    IN [j \in 1..Len(some) |-> some[j].v]

\* bytes of the stream the yielded packets took
RECURSIVE WireSize(_)
WireSize(payloads) ==
    IF payloads = <<>> THEN 0 ELSE 25 + Len(Head(payloads)) + WireSize(Tail(payloads))

\* the bytes read and not yet yielded, wherever they are kept
Held ==
    IF local # None THEN local[1].buf
    ELSE IF future # None THEN future[1].buf
    ELSE IF buf # None THEN buf[1]
    ELSE <<>>

\* C29: Packets has at most one read in flight, a poll after Pending
\* resumes it, and the packets yielded are the packets of the input, each
\* once and in order: every byte read is either in a yielded packet or
\* still held by the one read, and a stream that ends with None has
\* yielded all of them.
C29_OneReadInOrder ==
    /\ started - Len(yielded) = IF future # None \/ polling = "running" THEN 1 ELSE 0
    /\ ~(future # None /\ local # None)
    /\ StartsWith(PacketsOf(Stream), Payloads)
    /\ WireSize(Payloads) <= Len(consumed)
    /\ Held = [j \in 1..(Len(consumed) - WireSize(Payloads)) |->
                  consumed[WireSize(Payloads) + j]]
    /\ (\E j \in 1..Len(yielded) : yielded[j].k = "None") =>
          (Payloads = PacketsOf(Stream) /\ WireSize(Payloads) = Len(Stream))

C29_Witness ==
    /\ polling = "idle" /\ pendings = MaxPending
    /\ Payloads = << <<1>>, <<2>> >>
    /\ Len(yielded) = 3 /\ yielded[3].k = "None"
    /\ started = 3

\* C30: between polls either a read is in flight (future is Some, input
\* and buf are None) or none is (future is None, input and buf are Some);
\* next_packet never unwraps a None, also when the stream is polled after
\* it yielded None or an error.
C30_FutureOrParts ==
    /\ polling # "panicked"
    /\ polling = "idle" =>
          \/ future # None /\ input = None /\ buf = None
          \/ future = None /\ input # None /\ buf # None

C30_Witness ==
    /\ polling = "idle" /\ future = None /\ input # None /\ buf # None
    /\ Len(yielded) >= 3 /\ Ended = 2 /\ yielded[Len(yielded)].k = "Err"
    /\ pendings >= 1

\* the length a packet header at offset off of a byte stream declares
Declared(bytes, off) ==
    bytes[off + 25] + 256 * (bytes[off + 24] + 256 * (bytes[off + 23] + 256 * bytes[off + 22]))

\* bytes that stop inside a header or inside the payload of a Block packet
Incomplete(b) ==
    /\ b # <<>>
    /\ \/ Len(b) < 25
       \/ b[1] = 68 /\ Len(b) < 25 + Declared(b, 0)

\* C31: read_packet returns None only at end-of-file on an empty buffer,
\* at a packet boundary; end-of-file inside a header or before the whole
\* declared payload is the UnexpectedEof error.
C31_EofOnlyAtBoundary ==
    \A j \in 1..Len(yielded) :
        /\ yielded[j].k = "None" =>
              /\ wire = <<>> /\ ~wireErr /\ Held = <<>>
              /\ WireSize(Payloads) = Len(consumed)
        /\ (yielded[j].k # "Some" /\ wire = <<>> /\ ~wireErr /\ Incomplete(Held)) =>
              (yielded[j].k = "Err" /\ yielded[j].e = "UnexpectedEof")

C31_Witness ==
    /\ polling = "idle" /\ future = None /\ wire = <<>> /\ ~wireErr
    /\ Len(Payloads) = 1 /\ Len(yielded) = 2
    /\ yielded[2].k = "Err" /\ yielded[2].e = "UnexpectedEof"
    /\ Len(Held) = 25 /\ Held[1] = 68 /\ Declared(Held, 0) = 1

\* C32: the payload of every packet returned is the declared number of
\* bytes after its 25-byte header, unchanged, and what was read beyond it
\* is kept for the next call, however the input was split into reads.
C32_PayloadExact ==
    /\ \A j \in 1..Len(Payloads) :
          LET off == WireSize(SubSeq(Payloads, 1, j - 1))
          IN /\ Len(Stream) >= off + 25 + Len(Payloads[j])
             /\ Len(Payloads[j]) = Declared(Stream, off)
             /\ \A i \in 1..Len(Payloads[j]) : Payloads[j][i] = Stream[off + 25 + i]
    /\ Len(consumed) >= WireSize(Payloads)
    /\ \A i \in 1..Len(Held) : Held[i] = consumed[WireSize(Payloads) + i]
    /\ Len(Held) = Len(consumed) - WireSize(Payloads)

C32_Witness ==
    /\ polling = "idle" /\ future = None
    /\ Payloads = << <<1>> >> /\ Len(Held) = 25 + 1 /\ Held[25 + 1] = 2
    /\ wire = <<>>

\* offset in the dump of the packet after the header packet and the
\* yielded packets
NextOffset == 25 + 25 + Len(header[1]) + WireSize(Payloads)

\* C33: restore_db takes a Header packet first ("Dump is empty" when there
\* is none) and Packets yields Block packets only; a packet of another or
\* of an unknown type gives an error, is never yielded as data, and no
\* data follows the error.
C33_HeaderThenBlocks ==
    /\ rpc = "packets" <=> header # None
    /\ header # None =>
          /\ Stream[25 + 1] = 72
          /\ Len(header[1]) = Declared(Stream, 25)
    /\ rerr = "Dump is empty" => (Len(Stream) = 25 /\ rpc = "failed")
    /\ (Len(Stream) >= 25 + 25 /\ Stream[25 + 1] # 72) => rpc # "packets"
    /\ (rerr \in {"Invalid block type", "Expected block"} /\ header = None) =>
          (Len(Stream) >= 25 + 25 /\ Stream[25 + 1] # 72)
    /\ \A j \in 1..Len(Payloads) :
          Stream[25 + 25 + Len(header[1]) + WireSize(SubSeq(Payloads, 1, j - 1)) + 1] = 68
    /\ \A j \in 1..Len(yielded) :
          /\ yielded[j].e \in {"Invalid block type", "Expected block"} =>
                (Len(Stream) >= NextOffset + 25 /\ Stream[NextOffset + 1] # 68)
          /\ \A k \in (j + 1)..Len(yielded) :
                yielded[j].k # "Some" => yielded[k].k # "Some"

C33_Witness ==
    /\ rpc = "packets" /\ header = Some(<<1>>)
    /\ Len(yielded) = 2 /\ yielded[1].e = "Expected block" /\ yielded[2].k = "Err"
    /\ Stream[NextOffset + 1] = 72

\* the version field of the dump
VersionField == [j \in 1..8 |-> Stream[17 + j]]

\* C34: a dump whose version is not 1 is rejected with "Unsupported dump
\* version" before a packet is read.
C34_OnlyVersionOne ==
    (/\ rpc # "start" /\ Len(Stream) >= 25
     /\ rerr \notin {"cannot restore: the database is not empty",
                     "Cannot read header", "Incorrect header"}
     /\ VersionField # <<0, 0, 0, 0, 0, 0, 0, 1>>) =>
        /\ rpc = "failed" /\ rerr = "Unsupported dump version"
        /\ Len(consumed) = 25 /\ header = None

\* C35: the polling loop ends at the first response with a token; a
\* failed poll or a response without a token does not end the login, and
\* the next poll starts a poll interval after it; no poll starts at or
\* after the deadline, and without a token the login then fails with the
\* "Authentication expected to complete" error.
C35_PollUntilTokenOrDeadline ==
    /\ login.token # "" => login.pc \notin {"user", "session", "loop"}
    /\ login.pc = "loop" =>
          (login.result = "Running" /\ login.token = "")
    /\ login.cause \in {"user", "session", "already", "timeout"} => login.token = ""
    /\ login.polled_at # None =>
          /\ login.deadline = 10 * 60
          /\ login.polled_at[1] < login.deadline
    /\ login.last_end # None =>
          login.polled_at[1] >= login.last_end[1] + AUTHENTICATION_POLL_INTERVAL
    /\ login.cause = "timeout" =>
          /\ login.now >= login.deadline /\ login.token = ""
          /\ login.result = "Err" /\ login.config = <<>>
    /\ (login.pc = "done" /\ login.token = "" /\ login.polled_at # None) =>
          login.cause = "timeout"

C35_Witness ==
    /\ login.pc = "done" /\ login.result = "Ok" /\ login.cause = "logged in"
    /\ login.poll_failed /\ login.poll_empty
    /\ login.polled_at = Some(10 * 60 - 1) /\ login.now > login.deadline

\* C36: the config file is written at most once, after the token and the
\* secretkeys response, with the long-lived key and not the session token;
\* it is not written when login ends as already logged in, on a user
\* lookup error, a session creation failure, a secretkeys failure or a
\* timeout.
C36_ConfigWrittenOnce ==
    /\ Len(login.config) <= 1
    /\ login.config # <<>> =>
          /\ login.token = "session_token" /\ login.key = "secret_key"
          /\ login.config[1] = "secret_key"
    /\ login.cause \in {"already", "user", "session", "set_secret_key",
                        "secretkeys", "timeout"} => login.config = <<>>

C36_Witness ==
    /\ login.pc = "done" /\ login.result = "Ok"
    /\ login.config = <<"secret_key">> /\ login.poll_empty

\* a logout that ran to its result without a failing file operation or prompt
LogoutCompleted ==
    logout.pc = "done" /\ logout.result \in {"Ok", "NEEDS_FORCE", "PARTIAL_SUCCESS"}

\* C37: a credentials file of a profile that a project still uses is
\* deleted only with --force in non-interactive mode or after the user
\* confirmed the prompt for it.
C37_UsedProfileKept ==
    \A file \in logout.deleted :
        file.stem \in logout.used =>
            \/ logout.non_interactive /\ logout.force
            \/ file \in logout.confirmed

\* C38: Ok exactly when nothing was skipped; NEEDS_FORCE whenever a used
\* profile is met in non-interactive mode without --force; otherwise,
\* with something skipped, PARTIAL_SUCCESS if something was removed and
\* NEEDS_FORCE if nothing was.
C38_ResultBySkippedAndRemoved ==
    LogoutCompleted =>
        LET visited == IF logout.all_profiles
                       THEN {logout.dir[i] : i \in 1..Len(logout.dir)}
                       ELSE {[stem |-> logout.profile, ext |-> "json"]} \cap
                            {logout.dir[i] : i \in 1..Len(logout.dir)}
            used_met == \E file \in visited : file.stem \in logout.used
        IN /\ logout.result = "Ok" <=> logout.skipped_files = {}
           /\ (logout.non_interactive /\ ~logout.force /\ used_met) =>
                 logout.result = "NEEDS_FORCE"
           /\ (~(logout.non_interactive /\ ~logout.force) /\ logout.skipped_files # {}) =>
                 logout.result = IF logout.deleted # {} THEN "PARTIAL_SUCCESS"
                                 ELSE "NEEDS_FORCE"

C38_Witness ==
    /\ LogoutCompleted /\ logout.all_profiles /\ ~logout.non_interactive
    /\ logout.skipped_files # {} /\ logout.deleted # {}
    /\ logout.result = "PARTIAL_SUCCESS"

\* the local files of the instance that existed when destroy was called
LocalFiles ==
    (IF destroy.had_credentials THEN {0} ELSE {}) \cup
    {i \in 1..Len(destroy.had_service_files) : destroy.had_service_files[i]}

\* C39: destroy returns INSTANCE_NOT_FOUND exactly when WSL is absent or
\* reported INSTANCE_NOT_FOUND and no local file existed; after WSL
\* reported INSTANCE_NOT_FOUND the local files that exist are removed and
\* destroy succeeds; another non-zero WSL exit code is returned at once
\* and no local file is removed.
C39_NotFoundOnlyWhenNothingFound ==
    LET reported == destroy.wsl = "present" /\
                    destroy.status = Some("INSTANCE_NOT_FOUND")
        other == destroy.wsl = "present" /\ destroy.status # None /\
                 destroy.status \notin {Some("0"), Some("INSTANCE_NOT_FOUND")}
        returned == destroy.pc = "done" /\ destroy.result.k # "io"
    IN /\ returned =>
            (destroy.result = [k |-> "ExitCode", code |-> "INSTANCE_NOT_FOUND"]
               <=> ((destroy.wsl = "absent" \/ reported) /\ LocalFiles = {}))
       /\ (returned /\ reported /\ LocalFiles # {}) =>
            /\ destroy.result.k = "Ok"
            /\ destroy.removed = LocalFiles
            /\ ~destroy.credentials
            /\ \A i \in 1..Len(destroy.service_files) : ~destroy.service_files[i]
       /\ (returned /\ other) =>
            /\ destroy.result = [k |-> "ExitCode", code |-> destroy.status[1]]
            /\ destroy.removed = {}
            /\ destroy.credentials = destroy.had_credentials
            /\ destroy.service_files = destroy.had_service_files
       /\ other => destroy.pc \in {"wsl", "done"}

C39_Witness ==
    /\ destroy.pc = "done" /\ destroy.result.k = "Ok"
    /\ destroy.wsl = "present" /\ destroy.status = Some("INSTANCE_NOT_FOUND")
    /\ destroy.had_credentials /\ 1 \in LocalFiles
    /\ destroy.removed = LocalFiles

\* C40: a native render over a finite source that is polled until it
\* returns does return: the two phases and the two drain loops all end,
\* for every limit and every place of the fallback.
C40_NativeRenderTerminates == (entry = "native") ~> (pc = "done")

C40_Witness ==
    /\ entry = "native" /\ pc = "done" /\ result = "Ok"
    /\ fellBack /\ phase2 /\ exhausted
    /\ prn.max_items # None /\ Len(src) > prn.max_items[1] + 1

====
